---- MODULE Spec2Model ----
(***************************************************************************)
(* Assembly-and-solve engine of WeakFormProblem1d (src/ode.py): the        *)
(* residual assembler, the banded Jacobian assembler, the dense conversion *)
(* and the Newton driver.                                                  *)
(*                                                                         *)
(* Compiled operators are opaque numeric callables, so the value of one    *)
(* evaluation is modelled as a symbolic term and an array cell as the set  *)
(* of terms summed into it (every evaluation is added at most once, so a   *)
(* sum is a union; an assignment replaces the set):                        *)
(*   <<"elem", n, v>>     elemental residual of weight variable v on       *)
(*                        element n                                        *)
(*   <<"natL", 0, c>>     c-th left natural contribution (first element)   *)
(*   <<"natR", n, c>>     c-th right natural contribution (last element n) *)
(*   <<"ess", n, k>>      value of the k-th essential condition, evaluated *)
(*                        on element n                                     *)
(*   <<kind, n, x, i>>    derivative of <<kind, n, x>> with respect to     *)
(*                        local weight i of element n                      *)
(* Arrays are functions on 0..len-1, as in the source.                     *)
(***************************************************************************)
EXTENDS Integers, Sequences, FiniteSets, TLC

\* Bounds of the model.
MaxOrder == 3
MaxNodes == 3
MaxCoord == 2
MaxBCs == 2
MaxIters == 2

VARIABLES
    order,      \* weights.shape[1]: local unknowns per node
    nodes,      \* the mesh: strictly increasing coordinates, 0-based
    natural,    \* truth value of natural_boundary_condition
    bcs,        \* locations of the essential conditions, in condition order
    res,        \* outcome of the last residuals call, with its stages
    jac,        \* outcome of the last jacobian call, with its stages
    full,       \* outcome of the last full_jacobian call
    max_iters,  \* the cap given to solve
    heap,       \* contents of the weights arrays, by array identity
    runs,       \* the solve runs: one with an observer, one without
    resOut,     \* what residuals does at each weights content
    jacOut      \* what jacobian and solve_banded do at each weights content

cfgvars == <<order, nodes, natural, bcs>>
asmvars == <<res, jac, full>>
solvevars == <<max_iters, heap, runs, resOut, jacOut>>
vars == <<order, nodes, natural, bcs, res, jac, full, max_iters, heap, runs, resOut, jacOut>>

----------------------------------------------------------------------------
(* Shapes *)

nnodes == Cardinality(DOMAIN nodes)
nelements == nnodes - 1
Nodes == 0..(nnodes - 1)
Derivs == 0..(order - 1)
\* len(variables): the local weights of one element
nvars == 2 * order
LocalVars == 0..(nvars - 1)
\* J.shape[0] after np.zeros((2*(order+1)+1, nelements+1, order))
Height == 2 * (order + 1) + 1
Rows == 0..(Height - 1)
\* J.shape[1] after reshape(len(J), -1)
ncols == nnodes * order
Cols == 0..(ncols - 1)

\* Python indexing of an axis of length n: a negative index counts from the end.
PyIndex(i, n) == IF i < 0 THEN i + n ELSE i

\* var.indices of the v-th weight variable: (boundary, deriv), in the order of
\* the stacked local weights np.hstack((weights[:-1], weights[1:])).
VarIndices(v) == <<v \div order, v % order>>

Abs(x) == IF x < 0 THEN 0 - x ELSE x

\* An array held by value: f itself, with every element computed once.
Array(f) == f @@ <<>>

----------------------------------------------------------------------------
(* Operator evaluations *)

ElementalValue(n, v) == <<"elem", n, v>>
NaturalLeftValue(c) == <<"natL", 0, c>>
NaturalRightValue(c) == <<"natR", nelements - 1, c>>
EssentialValue(element, k) == <<"ess", element, k>>
\* the compiled derivative of an operator with respect to local weight i
Deriv(t, i) == <<t[1], t[2], t[3], i>>

----------------------------------------------------------------------------
(* Essential conditions: element lookup, nearest node, slots *)

BCs == DOMAIN bcs

\* np.digitize(point, element_edges, right=True): edges equal to the point
\* are not counted
DigitizeRight(point) == Cardinality({k \in 0..(nelements - 1) : nodes[k] < point})

\* np.digitize(point, element_edges) for increasing edges nodes[:-1]
Digitize(point) == Cardinality({k \in 0..(nelements - 1) : nodes[k] <= point})

ElementOf(k) == Digitize(bcs[k]) - 1

\* np.abs(nodes - point).argmin(): the first node at minimal distance
ClosestNode(k) ==
    CHOOSE n \in Nodes :
        /\ \A m \in Nodes : Abs(nodes[n] - bcs[k]) <= Abs(nodes[m] - bcs[k])
        /\ \A m \in Nodes : m < n => Abs(nodes[m] - bcs[k]) > Abs(nodes[n] - bcs[k])

\* xleft, xright = nodes[element:element+2] needs two values
LookupFails(k) == ElementOf(k) < 0

\* position of condition k in the list bcs[closest_node]
SlotOf(k) == Cardinality({k2 \in BCs : k2 < k /\ ClosestNode(k2) = ClosestNode(k)})

\* bcs.items() lists the nodes in the order of their first condition
FirstOf(n) == CHOOSE k \in BCs : ClosestNode(k) = n /\ \A k2 \in BCs : ClosestNode(k2) = n => k <= k2

WriteBefore(k1, k2) ==
    \/ FirstOf(ClosestNode(k1)) < FirstOf(ClosestNode(k2))
    \/ ClosestNode(k1) = ClosestNode(k2) /\ k1 < k2

\* the p-th write of the double loop over bcs.items()
WriteAt(p) == CHOOSE k \in BCs : Cardinality({k2 \in BCs : WriteBefore(k2, k)}) = p

----------------------------------------------------------------------------
(* residuals *)

ZeroResiduals == Array([n \in Nodes |-> Array([d \in Derivs |-> {}])])

\* ScatterResidual with the right-hand values added to R[:-1] as well
ScatterResidualSameSlice(R, v) ==
    LET deriv == VarIndices(v)[2]
        r == [n \in 0..(nelements - 1) |-> ElementalValue(n, v)]
    IN  Array([n \in Nodes |-> Array([d \in Derivs |->
            IF d = deriv /\ n <= nelements - 1 THEN R[n][d] \cup {r[n]} ELSE R[n][d]])])

\* one pass of the loop over zip(variables, functions)
ScatterResidual(R, v) ==
    LET boundary == VarIndices(v)[1]
        deriv == VarIndices(v)[2]
        r == [n \in 0..(nelements - 1) |-> ElementalValue(n, v)]
    IN  IF boundary = 0
        THEN Array([n \in Nodes |-> Array([d \in Derivs |->
                IF d = deriv /\ n <= nelements - 1 THEN R[n][d] \cup {r[n]} ELSE R[n][d]])])
        ELSE Array([n \in Nodes |-> Array([d \in Derivs |->
                IF d = deriv /\ n >= 1 THEN R[n][d] \cup {r[n - 1]} ELSE R[n][d]])])

RECURSIVE ElementalResidualLoop(_, _)
ElementalResidualLoop(R, v) ==
    IF v = nvars THEN R
    ELSE LET pass == ScatterResidual(R, v)
         IN  IF DOMAIN pass = Nodes THEN ElementalResidualLoop(pass, v + 1) ELSE pass

AddResidual(R, n, d, t) == [R EXCEPT ![n] = [@ EXCEPT ![d] = @ \cup {t}]]

\* one pass of the loop over enumerate(zip(left, right))
NaturalResidualStep(R, c) ==
    LET R1 == AddResidual(R, c \div order, c % order, NaturalLeftValue(c))
    IN  AddResidual(R1, PyIndex(-2 + (c \div order), nnodes), c % order, NaturalRightValue(c))

RECURSIVE NaturalResidualLoop(_, _)
NaturalResidualLoop(R, c) ==
    IF c = nvars THEN R
    ELSE LET pass == NaturalResidualStep(R, c)
         IN  IF DOMAIN pass = Nodes THEN NaturalResidualLoop(pass, c + 1) ELSE pass

NaturalResiduals(R) == IF natural THEN NaturalResidualLoop(R, 0) ELSE R

\* R[node,i] = value, in the order of the loops over bcs.items(); an index
\* i >= order is out of bounds for axis 1
RECURSIVE EssentialResidualLoop(_, _)
EssentialResidualLoop(R, p) ==
    IF p = Cardinality(BCs) THEN [err |-> "none", R |-> R]
    ELSE LET k == WriteAt(p)
         IN  IF SlotOf(k) >= order THEN [err |-> "IndexError", R |-> R]
             ELSE EssentialResidualLoop(
                    [R EXCEPT ![ClosestNode(k)] =
                        [@ EXCEPT ![SlotOf(k)] = {EssentialValue(ElementOf(k), k)}]],
                    p + 1)

\* the call residuals(nodes, weights) with the arrays it builds on the way
ResidualsCall ==
    LET elem == ElementalResidualLoop(ZeroResiduals, 0)
        nat == NaturalResiduals(elem)
    IN  IF \E k \in BCs : LookupFails(k)
        THEN [err |-> "ValueError", elem |-> elem, nat |-> nat, R |-> nat]
        ELSE LET ess == EssentialResidualLoop(nat, 0)
             IN  [err |-> ess.err, elem |-> elem, nat |-> nat, R |-> ess.R]

\* R.reshape(-1)
Flat(R) == [e \in Cols |-> R[e \div order][e % order]]

NotCalled == [err |-> "notcalled"]

----------------------------------------------------------------------------
(* jacobian *)

\* the buffer as a function of the cell: row r, column c is cell r*ncols + c
Cell(r, c) == r * ncols + c
Cells == 0..(Height * ncols - 1)
RowOf(x) == x \div ncols
ColOf(x) == x % ncols

ZeroJacobian == Array([x \in Cells |-> {}])

AddJacobian(J, r, c, t) == [J EXCEPT ![Cell(r, c)] = @ \cup {t}]

\* J[row,:-1,deriv] += j (boundary 0) or J[row,1:,deriv] += j (boundary 1),
\* element by element
RECURSIVE AddSlice(_, _, _, _, _, _)
AddSlice(J, row, boundary, deriv, j, n) ==
    IF n = nelements THEN J
    ELSE AddSlice(AddJacobian(J, row, (n + boundary) * order + deriv, j[n]),
                  row, boundary, deriv, j, n + 1)

\* one pass of the inner loop over enumerate(row): the derivative of the
\* elemental residual of variable v with respect to local weight i, batched
\* over the elements
ScatterJacobian(J, v, i) ==
    LET boundary == VarIndices(v)[1]
        deriv == VarIndices(v)[2]
        ii == Height - 2 - i
        j == [n \in 0..(nelements - 1) |-> Deriv(ElementalValue(n, v), i)]
    IN  IF boundary = 0
        THEN AddSlice(J, PyIndex(ii - order, Height), 0, deriv, j, 0)
        ELSE AddSlice(J, PyIndex(ii, Height), 1, deriv, j, 0)

RECURSIVE ElementalJacobianLoop(_, _)
ElementalJacobianLoop(J, q) ==
    IF q = nvars * nvars THEN J
    ELSE LET pass == ScatterJacobian(J, q \div nvars, q % nvars)
         IN  \* the shape never changes; the test completes this pass before the next
             IF DOMAIN pass = Cells THEN ElementalJacobianLoop(pass, q + 1) ELSE pass

\* J[rows, eqn] += values, rows = np.arange(start, start+len(values)) % len(J)
RECURSIVE AddColumn(_, _, _, _, _)
AddColumn(J, start, eqn, values, k) ==
    IF k = nvars THEN J
    ELSE AddColumn(AddJacobian(J, (start + k) % Height, eqn, values[k]), start, eqn, values, k + 1)

\* np.flipud of the derivatives of t with respect to the local weights
Flipped(t) == [k \in LocalVars |-> Deriv(t, nvars - 1 - k)]

\* one pass of the loop over enumerate(zip(left, right))
NaturalJacobianStep(J, c) ==
    LET l == Flipped(NaturalLeftValue(c))
        r == Flipped(NaturalRightValue(c))
        starting_row == Height - 1 - nvars
        J1 == AddColumn(J, starting_row, PyIndex(-2 * order + c, ncols), r, 0)
    IN  AddColumn(J1, starting_row - order, c, l, 0)

RECURSIVE NaturalJacobianLoop(_, _)
NaturalJacobianLoop(J, c) ==
    IF c = nvars THEN J
    ELSE LET pass == NaturalJacobianStep(J, c)
         IN  IF DOMAIN pass = Cells THEN NaturalJacobianLoop(pass, c + 1) ELSE pass

NaturalJacobian(J) == IF natural THEN NaturalJacobianLoop(J, 0) ELSE J

\* closest_node == element
BoundaryOnLeft(k) == ClosestNode(k) = ElementOf(k)

\* the vector entry built for condition k
EssentialEntry(k) ==
    LET values == Flipped(EssentialValue(ElementOf(k), k))
        starting_row == (Height - 1 - nvars) - (IF BoundaryOnLeft(k) THEN order ELSE 0)
    IN  Array([r \in Rows |->
            IF \E kk \in LocalVars : (starting_row + kk) % Height = r
            THEN {values[CHOOSE kk \in LocalVars : (starting_row + kk) % Height = r]}
            ELSE {}])

\* EssentialIndex without the slot of the condition
EssentialIndexNoSlot(k) == ClosestNode(k) * order

\* index = node*order + c
EssentialIndex(k) == ClosestNode(k) * order + SlotOf(k)

\* J[:,index] = entry, in the order of the loops over bcs.items(); an index
\* >= J.shape[1] is out of bounds for axis 1
RECURSIVE EssentialJacobianLoop(_, _)
EssentialJacobianLoop(J, p) ==
    IF p = Cardinality(BCs) THEN [err |-> "none", J |-> J]
    ELSE LET k == WriteAt(p)
             index == EssentialIndex(k)
             entry == EssentialEntry(k)
         IN  IF index >= ncols THEN [err |-> "IndexError", J |-> J]
             ELSE EssentialJacobianLoop(
                    Array([x \in Cells |-> IF ColOf(x) = index THEN entry[RowOf(x)] ELSE J[x]]),
                    p + 1)

\* J[:,c::order] = np.roll(J[:,c::order], c, axis=0)
RollStride(J, c) ==
    Array([x \in Cells |->
        IF ColOf(x) % order = c THEN J[Cell((RowOf(x) - c) % Height, ColOf(x))] ELSE J[x]])

RECURSIVE RollStrides(_, _)
RollStrides(J, c) == IF c >= order THEN J ELSE RollStrides(RollStride(J, c), c + 1)

\* J[c] = np.roll(J[c], len(J)//2-c)
RollRow(J, c) ==
    Array([x \in Cells |->
        IF RowOf(x) = c THEN J[Cell(c, (ColOf(x) - ((Height \div 2) - c)) % ncols)] ELSE J[x]])

RECURSIVE RollRows(_, _)
RollRows(J, c) ==
    IF c = Height THEN J
    ELSE LET pass == RollRow(J, c)
         IN  IF DOMAIN pass = Cells THEN RollRows(pass, c + 1) ELSE pass

\* the call jacobian(nodes, weights) with the buffers it builds on the way
JacobianCall ==
    LET elem == ElementalJacobianLoop(ZeroJacobian, 0)
        nat == NaturalJacobian(elem)
    IN  IF \E k \in BCs : LookupFails(k)
        THEN [err |-> "ValueError", elem |-> elem, nat |-> nat, ess |-> nat, J |-> nat]
        ELSE LET ess == EssentialJacobianLoop(nat, 0)
             IN  IF ess.err # "none"
                 THEN [err |-> ess.err, elem |-> elem, nat |-> nat, ess |-> ess.J, J |-> ess.J]
                 ELSE [err |-> "none", elem |-> elem, nat |-> nat, ess |-> ess.J,
                       J |-> RollRows(RollStrides(ess.J, 1), 0)]

\* full_jacobian(J): the banded matrix as a dense square matrix
FullJacobianOf(J) ==
    LET u == (Height - 1) \div 2
    IN  [i \in Cols |-> [j \in Cols |->
            IF (u + i - j) < 0 \/ (u + i - j) >= Height THEN {} ELSE J[Cell(u + i - j, j)]]]

----------------------------------------------------------------------------
Meshes ==
    {m \in UNION {[0..(k - 1) -> 0..MaxCoord] : k \in 2..MaxNodes} :
        \A a, b \in DOMAIN m : a < b => m[a] < m[b]}

BCLists == UNION {[0..(k - 1) -> 0..MaxCoord] : k \in 0..MaxBCs}

Init ==
    /\ order \in 1..MaxOrder
    /\ nodes \in Meshes
    /\ natural \in BOOLEAN
    /\ bcs \in BCLists
    /\ res = NotCalled
    /\ jac = NotCalled
    /\ full = NotCalled
    /\ max_iters = 0
    /\ heap = <<>>
    /\ runs = <<>>
    /\ resOut = <<>>
    /\ jacOut = <<>>

\* The assemblers are pure functions of the problem, so one call of each is
\* modelled, in the order a caller checking the Jacobian makes them.
Residuals ==
    /\ res = NotCalled
    /\ res' = ResidualsCall
    /\ UNCHANGED <<cfgvars, jac, full, solvevars>>

Jacobian ==
    /\ res # NotCalled
    /\ jac = NotCalled
    /\ jac' = JacobianCall
    /\ UNCHANGED <<cfgvars, res, full, solvevars>>

FullJacobian ==
    /\ jac # NotCalled
    /\ jac.err = "none"
    /\ full = NotCalled
    /\ full' = [err |-> "none", J |-> FullJacobianOf(jac.J)]
    /\ UNCHANGED <<cfgvars, res, jac, solvevars>>

Next == Residuals \/ Jacobian \/ FullJacobian

Spec == Init /\ [][Next]_vars

----------------------------------------------------------------------------
(* solve *)

(***************************************************************************)
(* A weights array is an object of the heap; its content is abstracted to  *)
(* the number of Newton steps added to the initial guess.  residuals and   *)
(* jacobian are functions of the problem and of the weights content, so    *)
(* what a call does at a content is chosen once (resOut, jacOut) and is    *)
(* the same for every run.  The norm of a residual is abstracted to how it *)
(* compares with atol: "le", "gt", "inf" (some entry is infinite) or "nan" *)
(* (some entry is NaN, for which every comparison is false).               *)
(***************************************************************************)

Unset == [err |-> "unset"]

\* the operator evaluations of a residuals call
EvaluatedBC(k) == \A k2 \in BCs : k2 <= k => ~LookupFails(k2)
ResidualTerms ==
    {ElementalValue(n, v) : n \in 0..(nelements - 1), v \in LocalVars}
    \cup (IF natural THEN {NaturalLeftValue(c) : c \in LocalVars}
                          \cup {NaturalRightValue(c) : c \in LocalVars}
          ELSE {})
    \cup {EssentialValue(ElementOf(k), k) : k \in {k2 \in BCs : EvaluatedBC(k2)}}
\* the operator evaluations of a jacobian call
JacobianTerms == {Deriv(t, i) : t \in ResidualTerms, i \in LocalVars}

\* evaluated inside `with np.errstate(divide='raise')`: the elemental and the
\* natural residual operators only
Guarded(t) == Len(t) = 3 /\ t[1] \in {"elem", "natL", "natR"}

\* the evaluations whose value is in the returned array
InResidual(call) == UNION {call.R[n][d] : n \in Nodes, d \in Derivs}
InJacobian(call) == UNION {call.J[x] : x \in Cells}

\* A division singularity in an evaluation outside errstate(divide='raise')
\* raises or yields a non-finite value, as the operands and the caller's
\* floating-point error state decide.
\* what one residuals call can do: the error it raises, how the norm of its
\* result compares with atol, and whether an operator evaluation was singular
ResidualOutcomes ==
    LET call == ResidualsCall
        static == call.err
        kept == IF static = "none" THEN InResidual(call) ELSE {}
        plain == IF static # "none"
                 THEN {[err |-> static, norm |-> "na", sing |-> FALSE]}
                 ELSE {[err |-> "none", norm |-> c, sing |-> FALSE] : c \in {"le", "gt", "nan"}}
        guarded == {[err |-> "FloatingPointError", norm |-> "na", sing |-> TRUE] :
                        t \in {t2 \in ResidualTerms : Guarded(t2)}}
        raised == {[err |-> "ZeroDivisionError", norm |-> "na", sing |-> TRUE] :
                        t \in {t2 \in ResidualTerms : ~Guarded(t2)}}
        silent == UNION {
                    IF static # "none"
                    THEN {[err |-> static, norm |-> "na", sing |-> TRUE]}
                    ELSE IF t \in kept
                    THEN {[err |-> "none", norm |-> c, sing |-> TRUE] : c \in {"inf", "nan"}}
                    ELSE {[err |-> "none", norm |-> c, sing |-> TRUE] : c \in {"le", "gt", "nan"}}
                    : t \in {t2 \in ResidualTerms : ~Guarded(t2)}}
    IN  plain \cup guarded \cup raised \cup silent

\* what one jacobian call followed by solve_banded can do: the error jacobian
\* raises, whether J is finite, whether the banded matrix is exactly singular
JacobianOutcomes ==
    LET call == JacobianCall
        static == call.err
        kept == IF static = "none" THEN InJacobian(call) ELSE {}
        plain == {[err |-> static, finite |-> TRUE, singular |-> b, sing |-> FALSE] :
                        b \in BOOLEAN}
        raised == {[err |-> "ZeroDivisionError", finite |-> TRUE, singular |-> FALSE, sing |-> TRUE] :
                        t \in JacobianTerms}
        silent == UNION {
                    IF static # "none"
                    THEN {[err |-> static, finite |-> TRUE, singular |-> FALSE, sing |-> TRUE]}
                    ELSE {[err |-> "none", finite |-> t \notin kept, singular |-> b, sing |-> TRUE] :
                            b \in BOOLEAN}
                    : t \in JacobianTerms}
    IN  plain \cup raised \cup silent

\* the outcomes a call can have at weights content w
Oracle(table, w, outcomes) == IF table[w] = Unset THEN outcomes ELSE {table[w]}

\* solve_banded((order+1, order+1), J, -R): check_finite rejects a non-finite
\* J or R, an exactly singular matrix is an error
SolveBanded(jo, R) ==
    IF ~jo.finite \/ R.norm \in {"inf", "nan"} THEN "ValueError"
    ELSE IF jo.singular THEN "LinAlgError"
    ELSE "none"

\* weights += step: the step is added into the array the caller passed
UpdateWeightsInPlace(h, w) == [heap |-> [h EXCEPT ![w] = @ + 1], weights |-> w]

\* weights = weights + step: the sum is a new array, bound to the name
UpdateWeights(h, w) ==
    LET a == Cardinality(DOMAIN h)
    IN  [heap |-> Array([x \in DOMAIN h \cup {a} |-> IF x = a THEN h[w] + 1 ELSE h[x]]),
         weights |-> a]

\* an update counted twice
CountTwice(iters) == iters + 2

\* iters += 1
CountUpdate(iters) == iters + 1

\* np.linalg.norm(R) > atol and iters < max_iters
LoopTest(run) == run.R.norm \in {"gt", "inf"} /\ run.iters < max_iters

\* an observer whose write also counts as an iteration
ObserveAndCount(run, text) ==
    IF run.observer THEN [run EXCEPT !.log = Append(@, text), !.iters = @ + 1] ELSE run

\* if print_updates: print_updates.write(text)
Observe(run, text) ==
    IF run.observer THEN [run EXCEPT !.log = Append(@, text)] ELSE run

Fail(run, e) == [run EXCEPT !.pc = "failed", !.err = e]

Runs == {"observed", "plain"}

NewRun(obs) ==
    [pc |-> "idle", observer |-> obs, weights |-> 0, R |-> [of |-> -1, norm |-> "na"],
     iters |-> 0, err |-> "none", log |-> <<>>, trace |-> <<>>, sing |-> FALSE]

\* problems the Newton driver is run on: one element pair, with or without a
\* natural condition, without essential conditions, with one at each end, or
\* with two at the first node
SolveProblems ==
    {[order |-> o, natural |-> nat, bcs |-> b] :
        o \in 1..2, nat \in BOOLEAN,
        b \in {<<>>, [k \in 0..1 |-> 2 * k], [k \in 0..1 |-> 0]}}

\* the weights contents the runs can produce
Contents == 0..(2 * MaxIters)

InitSolve ==
    /\ \E p \in SolveProblems :
          /\ order = p.order
          /\ natural = p.natural
          /\ bcs = p.bcs
    /\ nodes = [n \in 0..2 |-> n]
    /\ res = NotCalled
    /\ jac = NotCalled
    /\ full = NotCalled
    /\ max_iters \in 0..MaxIters
    /\ heap = [a \in {0} |-> 0]
    /\ runs = [r \in Runs |-> NewRun(r = "observed")]
    /\ resOut = [w \in Contents |-> Unset]
    /\ jacOut = [w \in Contents |-> Unset]

\* lines 407-414: the first residual and the header of the diagnostics
SolveStart(r) ==
    LET run == runs[r]
        w == heap[run.weights]
    IN  /\ run.pc = "idle"
        /\ \E ro \in Oracle(resOut, w, ResidualOutcomes) :
              /\ resOut' = [resOut EXCEPT ![w] = ro]
              /\ LET called == [run EXCEPT !.trace = Append(@, <<"residuals", w>>),
                                           !.sing = @ \/ ro.sing]
                 IN  runs' = [runs EXCEPT ![r] =
                        IF ro.err # "none" THEN Fail(called, ro.err)
                        ELSE Observe([called EXCEPT !.pc = "loop",
                                                    !.R = [of |-> w, norm |-> ro.norm],
                                                    !.iters = 0],
                                     <<0, w>>)]
        /\ UNCHANGED <<cfgvars, asmvars, max_iters, heap, jacOut>>

\* lines 416-422: one pass of the Newton loop
SolveIterate(r) ==
    LET run == runs[r]
        w == heap[run.weights]
    IN  /\ run.pc = "loop"
        /\ LoopTest(run)
        /\ \E jo \in Oracle(jacOut, w, JacobianOutcomes) :
              /\ jacOut' = [jacOut EXCEPT ![w] = jo]
              /\ LET assembled == [run EXCEPT !.trace = Append(@, <<"jacobian", w>>),
                                              !.sing = @ \/ jo.sing]
                 IN  IF jo.err # "none"
                     THEN /\ runs' = [runs EXCEPT ![r] = Fail(assembled, jo.err)]
                          /\ UNCHANGED <<heap, resOut>>
                     ELSE IF SolveBanded(jo, run.R) # "none"
                     THEN /\ runs' = [runs EXCEPT ![r] =
                                Fail([assembled EXCEPT !.trace = Append(@, <<"solve_banded", w>>)],
                                     SolveBanded(jo, run.R))]
                          /\ UNCHANGED <<heap, resOut>>
                     ELSE LET upd == UpdateWeights(heap, run.weights)
                              w2 == upd.heap[upd.weights]
                          IN  /\ heap' = upd.heap
                              /\ \E ro \in Oracle(resOut, w2, ResidualOutcomes) :
                                    /\ resOut' = [resOut EXCEPT ![w2] = ro]
                                    /\ LET updated ==
                                             [assembled EXCEPT
                                                !.weights = upd.weights,
                                                !.trace = @ \o <<<<"solve_banded", w>>,
                                                                 <<"update", w2>>,
                                                                 <<"residuals", w2>>>>,
                                                !.sing = @ \/ ro.sing]
                                       IN  runs' = [runs EXCEPT ![r] =
                                              IF ro.err # "none" THEN Fail(updated, ro.err)
                                              ELSE Observe([updated EXCEPT
                                                              !.R = [of |-> w2, norm |-> ro.norm],
                                                              !.iters = CountUpdate(@)],
                                                           <<CountUpdate(run.iters), w2>>)]
        /\ UNCHANGED <<cfgvars, asmvars, max_iters>>

\* lines 424-427: the loop test fails; the solution is reported and returned
SolveReturn(r) ==
    LET run == runs[r]
    IN  /\ run.pc = "loop"
        /\ ~LoopTest(run)
        /\ runs' = [runs EXCEPT ![r] =
                        Observe([run EXCEPT !.pc = "done"], <<"solution", heap[run.weights]>>)]
        /\ UNCHANGED <<cfgvars, asmvars, max_iters, heap, resOut, jacOut>>

NextSolve == \E r \in Runs : SolveStart(r) \/ SolveIterate(r) \/ SolveReturn(r)

SolveSpec == InitSolve /\ [][NextSolve]_vars

----------------------------------------------------------------------------
(* Properties of the assemblers *)

ResidualsDone == res.err # "notcalled"
JacobianDone == jac.err # "notcalled"
\* the upper bandwidth passed to solve_banded
u == order + 1

\* the equation a term belongs to, and the degree of freedom a derivative is
\* taken with respect to
ElemEquation(t) == (t[2] + VarIndices(t[3])[1]) * order + VarIndices(t[3])[2]
DofOf(t) == t[2] * order + t[4]

\* C10: before boundary conditions are applied, residual entry (n, d) is the
\* (left, d) operator on element n (when n <= nelements-1) plus the
\* (right, d) operator on element n-1 (when n >= 1), and nothing else.
C10_ElementalScatter ==
    ResidualsDone =>
        \A n \in Nodes, d \in Derivs :
            res.elem[n][d] =
                {ElementalValue(n, v) : v \in {w \in LocalVars :
                    VarIndices(w) = <<0, d>> /\ n <= nelements - 1}}
                \cup {ElementalValue(n - 1, v) : v \in {w \in LocalVars :
                    VarIndices(w) = <<1, d>> /\ n >= 1}}

\* an interior node has received a left and a right contribution
C10_Witness ==
    /\ ResidualsDone
    /\ nnodes >= 3
    /\ res.elem[1][0] = {ElementalValue(1, 0), ElementalValue(0, order)}

\* C3: every elemental Jacobian entry left in the buffer ends, after the two
\* roll stages, at row u + e - j and column j, inside the buffer, alone with
\* its own coupling, and full_jacobian recovers it at (e, j).
C3_BandedPosition ==
    (JacobianDone /\ jac.err = "none") =>
        \A x \in Cells : \A t \in jac.ess[x] :
            t[1] = "elem" =>
                LET e == ElemEquation(t)
                    j == DofOf(t)
                IN  /\ 0 <= u + e - j
                    /\ u + e - j < Height
                    /\ \A y \in Cells : t \in jac.J[y] <=> y = Cell(u + e - j, j)
                    /\ \A t2 \in jac.J[Cell(u + e - j, j)] :
                          t2[1] = "elem" => ElemEquation(t2) = e /\ DofOf(t2) = j
                    /\ full.err = "none" => t \in full.J[e][j]

\* the terms of the buffer before the roll stages
Placed(t) == \E x \in Cells : t \in jac.ess[x]

\* C9: the derivative of the c-th left natural contribution with respect to
\* local weight i ends at banded row u + e - j, column j with e = c, j = i, and
\* that of the c-th right contribution with e = (nnodes-2)*order + c,
\* j = (nnodes-2)*order + i: the equations residuals adds the contributions to.
C9_NaturalJacobianMirrorsResidual ==
    (JacobianDone /\ jac.err = "none" /\ natural) =>
        \A c \in LocalVars, i \in LocalVars :
            LET l == Deriv(NaturalLeftValue(c), i)
                r == Deriv(NaturalRightValue(c), i)
                base == (nnodes - 2) * order
            IN  /\ Placed(l) =>
                    /\ 0 <= u + c - i /\ u + c - i < Height
                    /\ l \in jac.J[Cell(u + c - i, i)]
                /\ Placed(r) =>
                    /\ 0 <= u + c - i /\ u + c - i < Height
                    /\ r \in jac.J[Cell(u + c - i, base + i)]

\* C2: the dense Jacobian holds at (e, j) exactly the derivatives with respect
\* to degree of freedom j of the terms residuals puts into entry e.
C2_JacobianMatchesResidual ==
    (ResidualsDone /\ res.err = "none" /\ full.err = "none") =>
        \A e \in Cols, j \in Cols :
            full.J[e][j] =
                {Deriv(t, j - t[2] * order) : t \in {t2 \in Flat(res.R)[e] :
                    0 <= j - t2[2] * order /\ j - t2[2] * order < nvars}}

\* more conditions at one node than the node has slots
SlotCollision == \E k \in BCs : SlotOf(k) >= order
LookupFailure == \E k \in BCs : LookupFails(k)
Claimed(n, m) == \E k \in BCs : ClosestNode(k) = n /\ SlotOf(k) = m
\* column c of a buffer, row by row
Column(J, c) == [r \in Rows |-> J[Cell(r, c)]]
EssentialDerivs(k) == {Deriv(EssentialValue(ElementOf(k), k), i) : i \in LocalVars}

C5_SlotCollisionFatal ==
    SlotCollision =>
        /\ ResidualsDone => res.err # "none"
        /\ JacobianDone =>
              /\ jac.err # "none"
              /\ \A k \in BCs : \A x \in Cells : \A t \in EssentialDerivs(k) :
                    t \in jac.ess[x] => ColOf(x) \div order = ClosestNode(k)

----------------------------------------------------------------------------
(* Properties of solve *)

Finished(run) == run.pc \in {"done", "failed"}

\* C1: solve never performs more than max_iters updates, and when it returns
\* the weights either the last evaluated residual norm is <= atol (Success)
\* or the number of updates performed equals max_iters (IterationLimitReached).
C1_TerminalStates ==
    \A r \in Runs :
        /\ runs[r].iters <= max_iters
        /\ runs[r].pc = "done" =>
              (runs[r].R.norm = "le" \/ runs[r].iters = max_iters)

\* C6: a division singularity in an operator evaluation of residual or
\* Jacobian assembly aborts the step with an error that reaches the caller of
\* solve: no run continues, or returns weights, after a singular evaluation.
C6_SingularityPropagates ==
    \A r \in Runs : runs[r].sing => runs[r].pc = "failed"

\* C7: on the same problem the run with an observer and the run without one
\* end the same way, with equal weights, after the same sequence of residual
\* evaluations, Jacobian assemblies and updates.
C7_ObserverNonInterference ==
    LET a == runs["observed"]
        b == runs["plain"]
    IN  (Finished(a) /\ Finished(b)) =>
            /\ a.pc = b.pc
            /\ a.err = b.err
            /\ a.iters = b.iters
            /\ a.trace = b.trace
            /\ heap[a.weights] = heap[b.weights]
            /\ a.R = b.R

\* C7, its case: both runs took a Newton step and returned, and only the
\* observed one wrote diagnostics (header line, one per update, solution).
C7_Witness ==
    LET a == runs["observed"]
        b == runs["plain"]
    IN  /\ a.pc = "done" /\ b.pc = "done"
        /\ a.iters >= 1
        /\ Len(a.log) = a.iters + 2
        /\ b.log = <<>>

\* C8: no step changes the mesh or the content of an existing weights array,
\* the caller's initial array included: each Newton update binds a new array.
C8_InputsUnchanged ==
    [][/\ nodes' = nodes
       /\ \A a \in DOMAIN heap : a \in DOMAIN heap' /\ heap'[a] = heap[a]]_vars

\* C8, its case: a run returned after at least one update, holding an array
\* other than the caller's, whose content is still the initial one.
C8_Witness ==
    \E r \in Runs :
        /\ runs[r].pc = "done"
        /\ runs[r].iters >= 1
        /\ runs[r].weights # 0
        /\ heap[0] = 0

----------------------------------------------------------------------------
(* Properties of the element lookup *)

InMesh(k) == nodes[0] <= bcs[k] /\ bcs[k] <= nodes[nnodes - 1]
Distance(n, k) == Abs(nodes[n] - bcs[k])

\* C11: once residuals and jacobian have looked up the essential conditions,
\* every condition located inside the mesh has a containing element e with
\* 0 <= e <= nelements-1 and nodes[e] <= p <= nodes[e+1], its nearest node is
\* e or e+1 with a tie going to e, and boundary_on_left holds exactly when
\* the nearest node is the left endpoint e (otherwise it is e+1); the lookup
\* itself does not fail.
C11_ElementLookup ==
    (JacobianDone /\ \A k \in BCs : InMesh(k)) =>
        /\ res.err # "ValueError"
        /\ jac.err # "ValueError"
        /\ \A k \in BCs :
              LET e == ElementOf(k)
                  p == bcs[k]
              IN  /\ 0 <= e /\ e <= nelements - 1
                  /\ nodes[e] <= p /\ p <= nodes[e + 1]
                  /\ p = nodes[nnodes - 1] => e = nelements - 1
                  /\ ClosestNode(k) \in {e, e + 1}
                  /\ \A n \in Nodes : Distance(ClosestNode(k), k) <= Distance(n, k)
                  /\ Distance(e, k) = Distance(e + 1, k) => ClosestNode(k) = e
                  /\ BoundaryOnLeft(k) <=> Distance(e, k) <= Distance(e + 1, k)
                  /\ ~BoundaryOnLeft(k) => ClosestNode(k) = e + 1

\* C11, its case: both assemblers ran on a problem with one condition midway
\* between the endpoints of its element (a tie) and one at the last node.
C11_Witness ==
    /\ JacobianDone
    /\ \A k \in BCs : InMesh(k)
    /\ \E k \in BCs :
          /\ Distance(ElementOf(k), k) = Distance(ElementOf(k) + 1, k)
          /\ BoundaryOnLeft(k)
    /\ \E k \in BCs :
          /\ bcs[k] = nodes[nnodes - 1]
          /\ ~BoundaryOnLeft(k)

----------------------------------------------------------------------------
(* Properties of the Newton loop *)

\* the number of calls of one kind a run has made
Calls(run, kind) == Cardinality({i \in DOMAIN run.trace : run.trace[i][1] = kind})

\* C12: whenever a run of solve is at its loop test or has returned, R is the
\* residual of the current weights, iters is the number of updates applied,
\* residuals was evaluated once more than jacobian was assembled (each
\* assembly followed by one banded solve); and a run that returns when the
\* initial residual norm is <= atol or max_iters is 0 returns the caller's
\* initial weights without any Jacobian assembly or banded solve.
C12_LoopInvariant ==
    \A r \in Runs :
        LET run == runs[r]
        IN  run.pc \in {"loop", "done"} =>
                /\ run.R.of = heap[run.weights]
                /\ run.iters = Calls(run, "update")
                /\ Calls(run, "residuals") = Calls(run, "jacobian") + 1
                /\ Calls(run, "solve_banded") = Calls(run, "jacobian")
                /\ Calls(run, "jacobian") = run.iters
                /\ (run.pc = "done" /\ (resOut[0].norm = "le" \/ max_iters = 0)) =>
                        /\ run.weights = 0
                        /\ run.iters = 0
                        /\ Calls(run, "jacobian") = 0
                        /\ Calls(run, "solve_banded") = 0

\* C12, its case: a run returned converged after two updates, its loop test
\* having been evaluated after each of them.
C12_Witness ==
    \E r \in Runs :
        /\ runs[r].pc = "done"
        /\ runs[r].iters = 2
        /\ runs[r].R.norm = "le"
        /\ runs[r].R.of = 2
====
